---- MODULE Spec2Model ----
(***************************************************************************)
(* A model of des.py, the todo.txt add-on that attaches a description      *)
(* file to a task line through a `des:<id>` tag.                           *)
(*                                                                         *)
(* Text is modelled as a sequence of one-character strings; the two line   *)
(* terminator characters are written "LF" and "CR".  The persisted state   *)
(* is the task file (its bytes), its `.bak` sibling, the path              *)
(* <TODO_DIR>/descriptions (absent, a directory, or something else) and    *)
(* the description files inside it.  One action is one run of the command  *)
(* line program: main() with one of the three verbs.                       *)
(***************************************************************************)
EXTENDS Integers, Sequences, FiniteSets, TLC

VARIABLES
    todo,       \* bytes of $TODO_FILE
    bak,        \* bytes of $TODO_FILE.bak, or NoFile
    descDir,    \* what <TODO_DIR>/descriptions is: "absent", "dir", "file"
    descFiles,  \* the files of the descriptions directory: name stem -> bytes
    writeMode,  \* mode fileinput opens the in-place output with ("w" / "wb")
    last,       \* the most recent run of the program: its input and outcome
    nRuns,      \* number of runs so far
    line,       \* (tag parser specification) the line handed to parse_task
    parsed      \* (tag parser specification) the Task it returned

vars == <<todo, bak, descDir, descFiles, writeMode, last, nRuns, line, parsed>>

(***************************************************************************)
(* Bounds of the model.                                                    *)
(***************************************************************************)
MaxRuns  == 2   \* runs of the program in one behaviour
NumIds   == 2   \* distinct identifiers the random generator may produce
MaxPlain == 5   \* longest line enumerated exhaustively for the tag parser
MaxAffix == 1   \* longest text enumerated before / after a given tag

(***************************************************************************)
(* Characters.                                                             *)
(***************************************************************************)
LF == "LF"
CR == "CR"
SP == " "

Lower == {"a","b","c","d","e","f","g","h","i","j","k","l","m",
          "n","o","p","q","r","s","t","u","v","w","x","y","z"}
Upper == {"A","B","C","D","E","F","G","H","I","J","K","L","M",
          "N","O","P","Q","R","S","T","U","V","W","X","Y","Z"}
Digit == {"0","1","2","3","4","5","6","7","8","9"}

\* the character class [a-zA-Z0-9] of DESCRIPTION_ID_PATTERN
Alnum == Lower \cup Upper \cup Digit

\* the characters str.strip() removes (the ASCII ones)
Whitespace == {SP, "TAB", LF, CR, "VT", "FF"}

\* a file that may not exist
NoFile     == [exists |-> FALSE, content |-> <<>>]
File(c)    == [exists |-> TRUE, content |-> c]

\* Optional[T]: None, or the one value
None       == {}
Some(x)    == {x}
The(o)     == CHOOSE x \in o : TRUE

RECURSIVE Flatten(_)
Flatten(ss) == IF ss = <<>> THEN <<>> ELSE Head(ss) \o Flatten(Tail(ss))

(***************************************************************************)
(* DESCRIPTION_ID_PATTERN = des:(?P<des_id>[a-zA-Z0-9]+)                   *)
(***************************************************************************)
\* des:[a-zA-Z0-9]* -- the pattern with an optional run
MatchAtStar(s, p) ==
    /\ p + 3 <= Len(s)
    /\ s[p] = "d" /\ s[p+1] = "e" /\ s[p+2] = "s" /\ s[p+3] = ":"

\* the pattern matches at position p of s
MatchAt(s, p) ==
    /\ p + 4 <= Len(s)
    /\ s[p] = "d" /\ s[p+1] = "e" /\ s[p+2] = "s" /\ s[p+3] = ":"
    /\ s[p+4] \in Alnum

\* last position of the (greedy) run of alphanumerics that starts at q
RECURSIVE RunEnd(_, _)
RunEnd(s, q) ==
    IF q + 1 <= Len(s) /\ s[q+1] \in Alnum THEN RunEnd(s, q + 1) ELSE q

\* re.search: position of the leftmost match at or after p, 0 when none
RECURSIVE SearchFrom(_, _)
SearchFrom(s, p) ==
    IF p > Len(s) THEN 0
    ELSE IF MatchAt(s, p) THEN p
    ELSE SearchFrom(s, p + 1)

\* re.sub(pattern, '', s): every non-overlapping match, left to right, removed
RECURSIVE SubFrom(_, _)
SubFrom(s, p) ==
    IF p > Len(s) THEN <<>>
    ELSE IF MatchAt(s, p) THEN SubFrom(s, RunEnd(s, p + 4) + 1)
    ELSE <<s[p]>> \o SubFrom(s, p + 1)

re_sub(s) == SubFrom(s, 1)

(***************************************************************************)
(* str.strip()                                                             *)
(***************************************************************************)
RECURSIVE lstrip(_)
lstrip(s) ==
    IF s # <<>> /\ Head(s) \in Whitespace THEN lstrip(Tail(s)) ELSE s

RECURSIVE rstrip(_)
rstrip(s) ==
    IF s # <<>> /\ s[Len(s)] \in Whitespace
    THEN rstrip(SubSeq(s, 1, Len(s) - 1)) ELSE s

strip(s) == lstrip(rstrip(s))

(***************************************************************************)
(* Reading a file line by line.                                            *)
(***************************************************************************)
\* open(..., 'r') splits at "\n", "\r\n" and "\r" (universal newlines); these
\* are the lines with the terminators they are stored with
RECURSIVE RawLinesFrom(_, _, _)
RawLinesFrom(b, p, cur) ==
    IF p > Len(b) THEN (IF cur = <<>> THEN <<>> ELSE <<cur>>)
    ELSE IF b[p] = LF
         THEN <<cur \o <<LF>>>> \o RawLinesFrom(b, p + 1, <<>>)
    ELSE IF b[p] = CR
         THEN IF p + 1 <= Len(b) /\ b[p+1] = LF
              THEN <<cur \o <<CR, LF>>>> \o RawLinesFrom(b, p + 2, <<>>)
              ELSE <<cur \o <<CR>>>> \o RawLinesFrom(b, p + 1, <<>>)
    ELSE RawLinesFrom(b, p + 1, cur \o <<b[p]>>)

RawLines(b) == RawLinesFrom(b, 1, <<>>)

\* a line as the program reads it: its terminator translated to "\n"
Translate(ln) ==
    LET n == Len(ln)
    IN  IF n >= 2 /\ ln[n-1] = CR /\ ln[n] = LF THEN SubSeq(ln, 1, n - 2) \o <<LF>>
        ELSE IF n >= 1 /\ ln[n] = CR THEN SubSeq(ln, 1, n - 1) \o <<LF>>
        ELSE ln

TextLines(b) == LET raw == RawLines(b) IN [i \in 1..Len(raw) |-> Translate(raw[i])]

\* mode "rb": lines end at "\n" only and are returned as they are stored
RECURSIVE BinaryLinesFrom(_, _, _)
BinaryLinesFrom(b, p, cur) ==
    IF p > Len(b) THEN (IF cur = <<>> THEN <<>> ELSE <<cur>>)
    ELSE IF b[p] = LF
         THEN <<cur \o <<LF>>>> \o BinaryLinesFrom(b, p + 1, <<>>)
    ELSE BinaryLinesFrom(b, p + 1, cur \o <<b[p]>>)

BinaryLines(b) == BinaryLinesFrom(b, 1, <<>>)

(***************************************************************************)
(* parse_task, get_task                                                    *)
(***************************************************************************)
\* a Task; description_id is <<>> when the line holds no tag (None in the code)
Task(id, content, des) ==
    [id |-> id, original_content |-> content, description_id |-> des]

\* parse_task over the pattern with an optional run: the leftmost "des:" decides
parse_task_star(task_id, original_content) ==
    LET ps == {p \in 1..Len(original_content) : MatchAtStar(original_content, p)}
        p  == CHOOSE q \in ps : \A r \in ps : q <= r
        e  == RunEnd(original_content, p + 3)
    IN  IF ps # {} /\ e >= p + 4
        THEN Task(task_id, original_content, SubSeq(original_content, p + 4, e))
        ELSE Task(task_id, original_content, <<>>)

parse_task(task_id, original_content) ==
    LET p == SearchFrom(original_content, 1)
    IN  IF p # 0
        THEN Task(task_id, original_content,
                  SubSeq(original_content, p + 4, RunEnd(original_content, p + 4)))
        ELSE Task(task_id, original_content, <<>>)

\* get_task comparing i == task_id
get_task_shifted(file, task_id) ==
    LET ls == TextLines(file)
    IN  IF task_id + 1 \in 1..Len(ls)
        THEN Some(parse_task(task_id, ls[task_id + 1]))
        ELSE None

get_task(file, task_id) ==
    LET ls == TextLines(file)
    IN  IF \E i \in 0..(Len(ls) - 1) : i = task_id - 1
        THEN Some(parse_task(task_id, ls[task_id]))
        ELSE None

(***************************************************************************)
(* The description store.                                                  *)
(***************************************************************************)
EmptyDir == [x \in {} |-> <<>>]

\* a write that leaves only the new file in the directory
WriteFileOnly(files, name, text) == (name :> text)

\* open(description_file, "w").write(text): creates or overwrites one file
WriteFile(files, name, text) ==
    [n \in DOMAIN files \cup {name} |-> IF n = name THEN text ELSE files[n]]

\* get_description_file: the directory after the call, and whether it raised
get_description_file(dir) ==
    LET after == IF dir = "absent" THEN "dir" ELSE dir
    IN  [dir |-> after, raised |-> after # "dir"]

\* "".join(df.readlines()) of a file opened in text mode
ReadText(bytes) == Flatten(TextLines(bytes))

(***************************************************************************)
(* The in-place rewrite of the task file (fileinput.FileInput).            *)
(***************************************************************************)
\* a backup taken after the rewrite
BackupOfNew(old, new) == File(new)

\* what FileInput(inplace=True, backup=".bak") leaves in the .bak file: the
\* task file is renamed to it before the first line is read
BackupOf(old, new) == File(old)

\* the line printed in place of the target line
TargetLine(ln, description_id) ==
    strip(re_sub(ln)) \o <<SP, "d", "e", "s", ":">> \o description_id \o <<LF>>

Rewrite(file, task_id, description_id) ==
    LET ls == BinaryLines(file)
    IN  Flatten([index \in 1..Len(ls) |->
                    IF index = task_id THEN TargetLine(ls[index], description_id)
                    ELSE ls[index]])

(***************************************************************************)
(* Inputs.                                                                 *)
(***************************************************************************)
IdLen    == 8
HexChars == <<"a", "b", "e", "f", "c", "d">>

\* identifiers sha256(...).hexdigest()[:8] may produce
GenIds == {[i \in 1..IdLen |-> HexChars[k]] : k \in 1..NumIds}

OldId   == <<"d","e","a","d","b","e","e","f">>
OldText == <<"o","l","d">>

TaskIds == -1..3

\* the description argument; "-" asks for standard input
Args   == {<<"m">>, <<"-">>}
Stdins == {<<SP, "k", CR, LF, "l", LF>>}

\* what the editor may leave in the file it is given (NoFile: nothing written)
EditorWrites == {NoFile, File(<<"e">>)}

TodoFiles ==
    { \* "  t des:deadbeef y \nz"
      <<SP,SP,"t",SP,"d","e","s",":","d","e","a","d","b","e","e","f",SP,"y",SP,LF,"z">>,
      \* "desdes:a:b\n"
      <<"d","e","s","d","e","s",":","a",":","b",LF>>,
      \* "a\rb des:deadbeef\n"
      <<"a",CR,"b",SP,"d","e","s",":","d","e","a","d","b","e","e","f",LF>>,
      \* "p des: des:a des:deadbeef\r\nq\n"
      <<"p",SP,"d","e","s",":",SP,"d","e","s",":","a",SP,
        "d","e","s",":","d","e","a","d","b","e","e","f",CR,LF,"q",LF>>,
      \* the empty file
      <<>> }

optionally_from_stdin(input, stdin) ==
    IF input = <<"-">> THEN strip(ReadText(stdin)) ELSE input

\* the descriptions argparse hands to add_description
Descriptions == {optionally_from_stdin(input, stdin) : input \in Args, stdin \in Stdins}

(***************************************************************************)
(* The state machine: one step is one run of main().                       *)
(***************************************************************************)
NoRun == [op |-> "none", task_id |-> 0, description |-> <<>>, id |-> <<>>,
          exit |-> 0, err |-> "", out |-> <<>>, editor |-> FALSE]

Run(op, task_id, description, id, exit, err, out, editor) ==
    [op |-> op, task_id |-> task_id, description |-> description, id |-> id,
     exit |-> exit, err |-> err, out |-> out, editor |-> editor]

Init ==
    /\ todo \in TodoFiles
    /\ bak = NoFile
    /\ descDir \in {"absent", "dir", "file"}
    /\ descFiles \in (IF descDir = "dir" THEN {EmptyDir, OldId :> OldText}
                      ELSE {EmptyDir})
    /\ writeMode \in {"w", "wb"}
    /\ last = NoRun
    /\ nRuns = 0
    /\ line = <<>>
    /\ parsed = Task(0, <<>>, <<>>)

\* the bookkeeping every run shares
Ran(r) ==
    /\ nRuns < MaxRuns
    /\ nRuns' = nRuns + 1
    /\ last' = r
    /\ UNCHANGED <<writeMode, line, parsed>>

\* main(["add", task_id, input]) -> add_description
\*
\* The rewrite prints str lines to the stream FileInput opens for the new task
\* file.  With mode="rb" that stream is a text stream ("w") up to Python 3.9
\* and a binary stream ("wb") from Python 3.10 on, where the first print()
\* raises TypeError: nothing has been written by then, the exception is not a
\* ValueError and the interpreter exits with status 1.  writeMode is the
\* behaviour of the interpreter the program runs under.
AddCmd(task_id, description, new_id) ==
    LET task == get_task(todo, task_id)
    IN  IF task = None
        THEN /\ Ran(Run("add", task_id, description, <<>>, 1, "TaskNotFound", <<>>, FALSE))
             /\ UNCHANGED <<todo, bak, descDir, descFiles>>
        ELSE IF descDir # "dir"
        THEN /\ Ran(Run("add", task_id, description, <<>>, 1, "NotADirectory", <<>>, FALSE))
             /\ UNCHANGED <<todo, bak, descDir, descFiles>>
        ELSE /\ descFiles' = WriteFile(descFiles, new_id, description)
             /\ UNCHANGED descDir
             /\ IF writeMode = "w"
                THEN /\ todo' = Rewrite(todo, task_id, new_id)
                     /\ bak' = BackupOf(todo, todo')
                     /\ Ran(Run("add", task_id, description, new_id, 0, "", <<>>, FALSE))
                ELSE \* the first print() to the binary output raises TypeError
                     /\ todo' = <<>>
                     /\ bak' = BackupOf(todo, todo')
                     /\ Ran(Run("add", task_id, description, new_id, 1, "TypeError", <<>>, FALSE))

\* show_description(task_id) in a given state: the run's outcome and what it
\* leaves of the descriptions path
show_description(file, dir, files, task_id) ==
    LET task == get_task(file, task_id)
    IN  IF task = None
        THEN [run |-> Run("show", task_id, <<>>, <<>>, 1, "TaskNotFound", <<>>, FALSE),
              dir |-> dir]
        ELSE IF The(task).description_id = <<>>
        THEN [run |-> Run("show", task_id, <<>>, <<>>, 1, "NoDescription", <<>>, FALSE),
              dir |-> dir]
        ELSE LET id == The(task).description_id
                 d  == get_description_file(dir)
             IN  IF d.raised
                 THEN [run |-> Run("show", task_id, <<>>, id, 1, "NotADirectory", <<>>, FALSE),
                       dir |-> d.dir]
                 ELSE IF id \notin DOMAIN files
                 THEN [run |-> Run("show", task_id, <<>>, id, 1, "NotAFile", <<>>, FALSE),
                       dir |-> d.dir]
                 ELSE [run |-> Run("show", task_id, <<>>, id, 0, "",
                                   ReadText(files[id]) \o <<LF>>, FALSE),
                       dir |-> d.dir]

\* main(["show", task_id])
ShowCmd(task_id) ==
    LET r == show_description(todo, descDir, descFiles, task_id)
    IN  /\ Ran(r.run)
        /\ descDir' = r.dir
        /\ UNCHANGED <<todo, bak, descFiles>>

\* main(["edit", task_id]) -> edit_description
EditCmd(task_id, written) ==
    LET task == get_task(todo, task_id)
    IN  /\ UNCHANGED <<todo, bak>>
        /\ IF task = None
           THEN /\ Ran(Run("edit", task_id, <<>>, <<>>, 1, "TaskNotFound", <<>>, FALSE))
                /\ UNCHANGED <<descDir, descFiles>>
           ELSE IF The(task).description_id = <<>>
           THEN /\ Ran(Run("edit", task_id, <<>>, <<>>, 1, "NoDescription", <<>>, FALSE))
                /\ UNCHANGED <<descDir, descFiles>>
           ELSE LET id == The(task).description_id
                    d  == get_description_file(descDir)
                IN  /\ descDir' = d.dir
                    /\ IF d.raised
                       THEN /\ Ran(Run("edit", task_id, <<>>, id, 1, "NotADirectory", <<>>, FALSE))
                            /\ UNCHANGED descFiles
                       ELSE \* call([editor, description_file]); its status is ignored
                            /\ descFiles' = IF written.exists
                                            THEN WriteFile(descFiles, id, written.content)
                                            ELSE descFiles
                            /\ Ran(Run("edit", task_id, <<>>, id, 0, "", <<>>, TRUE))

Next ==
    \/ \E task_id \in TaskIds, description \in Descriptions, new_id \in GenIds :
          AddCmd(task_id, description, new_id)
    \/ \E task_id \in TaskIds : ShowCmd(task_id)
    \/ \E task_id \in TaskIds, written \in EditorWrites : EditCmd(task_id, written)

Spec == Init /\ [][Next]_vars

(***************************************************************************)
(* The tag parser on its own: parse_task applied to one line.              *)
(***************************************************************************)
ParserAlphabet == {"d", "e", "s", ":", "A", SP}

\* every text of length n over the alphabet
Strings(n) == UNION {[1..k -> ParserAlphabet] : k \in 0..n}

\* the tag of the specification's example, des:ABC123
ExampleId  == <<"A","B","C","1","2","3">>
ExampleTag == <<"d","e","s",":">> \o ExampleId

Affixes ==
    Strings(MaxAffix) \cup
    { <<"d","e","s",":",SP>>,            \* "des: "
      <<"d","e","s",":">>,               \* "des:"
      <<"d","e","s",":","1",SP>>,        \* "des:1 "
      <<"x",SP>>, <<SP,"y">>, <<"Z">> }

ParserLines ==
    Strings(MaxPlain) \cup {pre \o ExampleTag \o post : pre \in Affixes, post \in Affixes}

ParserInit ==
    /\ line \in ParserLines
    /\ parsed = Task(0, <<>>, <<>>)
    /\ todo = <<>> /\ bak = NoFile /\ descDir = "absent" /\ descFiles = EmptyDir
    /\ writeMode = "w" /\ last = NoRun /\ nRuns = 0

ParseLine ==
    /\ parsed.id = 0
    /\ parsed' = parse_task(1, line)
    /\ UNCHANGED <<line, todo, bak, descDir, descFiles, writeMode, last, nRuns>>

ParserNext == ParseLine

ParserSpec == ParserInit /\ [][ParserNext]_vars

(***************************************************************************)
(* Properties.                                                             *)
(***************************************************************************)
\* this step is a run of the program
Step == nRuns' = nRuns + 1

\* the task exists for the Task Locator
Exists(file, task_id) == task_id \in 1..Len(TextLines(file))

\* C1: a successful `add i d` followed by `show i` prints exactly d (print()
\* ends what it writes with a line terminator).
C1_RoundTrip ==
    [][ (Step /\ last.op = "add" /\ last.exit = 0
              /\ last'.op = "show" /\ last'.task_id = last.task_id)
        => (last'.exit = 0 /\ last'.out = last.description \o <<LF>>) ]_vars

\* C2: the rewrite done by `add i` keeps the number of lines and leaves every
\* line j # i as it was, terminator included.
C2_RewriteFrame ==
    [][ (Step /\ last'.op = "add" /\ last'.err \in {"", "TypeError"})
        => /\ Len(RawLines(todo')) = Len(RawLines(todo))
           /\ \A j \in 1..Len(RawLines(todo)) :
                 j # last'.task_id => RawLines(todo')[j] = RawLines(todo)[j] ]_vars

\* C3: after a successful add that generated K, the Task Locator finds K as
\* the description identifier of the task.
C3_NewTagAuthoritative ==
    (last.op = "add" /\ last.exit = 0)
    => /\ get_task(todo, last.task_id) # None
       /\ The(get_task(todo, last.task_id)).description_id = last.id

\* C4: the rewritten target line is the original line with its des: tags
\* removed, trailing whitespace (only) trimmed, and " des:<new-id>" appended.
C4_TargetLine ==
    [][ (Step /\ last'.op = "add" /\ last'.exit = 0
              /\ last'.task_id \in 1..Len(BinaryLines(todo)))
        => BinaryLines(todo')[last'.task_id] =
              rstrip(re_sub(BinaryLines(todo)[last'.task_id]))
                 \o <<SP, "d", "e", "s", ":">> \o last'.id \o <<LF>> ]_vars

\* C5: after every successful add the .bak file exists and holds the task file
\* as it was immediately before that rewrite.
C5_BackupHoldsPrevious ==
    [][ (Step /\ last'.op = "add" /\ last'.exit = 0)
        => (bak'.exists /\ bak'.content = todo) ]_vars

\* a second successful add: the backup is the file the first add wrote
C5_Witness ==
    /\ last.op = "add" /\ last.exit = 0 /\ nRuns = 2
    /\ bak.exists /\ bak.content \notin TodoFiles /\ bak.content # todo
    /\ Len(BinaryLines(bak.content)) = 2

\* C6 as stated: add never deletes or modifies an existing description file.
C6_NoFileTouched ==
    [][ (Step /\ last'.op = "add")
        => \A n \in DOMAIN descFiles :
              n \in DOMAIN descFiles' /\ descFiles'[n] = descFiles[n] ]_vars

\* C6 amended: add never deletes a description file, and modifies none other
\* than the one named by the identifier it generated.
C6_OnlyNewFileWritten ==
    [][ (Step /\ last'.op = "add")
        => \A n \in DOMAIN descFiles :
              /\ n \in DOMAIN descFiles'
              /\ n # last'.id => descFiles'[n] = descFiles[n] ]_vars

\* the tag des:OLDID was replaced by a successful add and OLDID.txt is as before
C6_Witness ==
    /\ last.op = "add" /\ last.exit = 0 /\ last.id # OldId
    /\ bak.exists /\ get_task(bak.content, last.task_id) # None
    /\ The(get_task(bak.content, last.task_id)).description_id = OldId
    /\ The(get_task(todo, last.task_id)).description_id = last.id
    /\ OldId \in DOMAIN descFiles /\ descFiles[OldId] = OldText
    /\ last.id \in DOMAIN descFiles /\ descFiles[last.id] = last.description

\* C7: with a task index outside 1..N every verb fails with 'task not found',
\* exit code 1, and changes nothing that is persisted.
C7_NotFoundChangesNothing ==
    [][ (Step /\ ~Exists(todo, last'.task_id))
        => /\ last'.exit = 1 /\ last'.err = "TaskNotFound"
           /\ UNCHANGED <<todo, bak, descDir, descFiles>> ]_vars

\* add 0 on a non-empty task file, the descriptions directory absent
C7_Witness ==
    /\ last.op = "add" /\ last.task_id = 0
    /\ last.exit = 1 /\ last.err = "TaskNotFound"
    /\ todo # <<>> /\ bak = NoFile /\ descDir = "absent" /\ descFiles = EmptyDir

\* C8: edit i ends in the error outcome exactly when show i would.
C8_EditFailsLikeShow ==
    [][ (Step /\ last'.op = "edit")
        => ( (last'.exit = 1 /\ ~last'.editor)
             <=> show_description(todo, descDir, descFiles, last'.task_id).run.exit = 1 ) ]_vars

\* C9: an operation on an existing task that resolves a description path
\* creates the descriptions directory when it is absent and proceeds; the
\* configuration error is raised only when the path is not a directory.
C9_DirectoryCreated ==
    [][ Step
        => /\ (last'.err = "NotADirectory" => descDir = "file")
           /\ ( ( /\ Exists(todo, last'.task_id)
                  /\ descDir = "absent"
                  /\ \/ last'.op = "add"
                     \/ The(get_task(todo, last'.task_id)).description_id # <<>> )
                => descDir' = "dir" ) ]_vars

(***************************************************************************)
(* Properties of the tag parser.                                           *)
(***************************************************************************)
\* text t occurs in s at position p
OccursAt(s, t, p) == p + Len(t) - 1 <= Len(s) /\ SubSeq(s, p, p + Len(t) - 1) = t

\* "des:" followed by at least one alphanumeric character starts at p
TagStartsAt(s, p) == OccursAt(s, <<"d","e","s",":">>, p) /\ p + 4 <= Len(s) /\ s[p+4] \in Alnum

\* C10 as stated: a line containing des:ABC123 yields exactly ABC123 whatever
\* surrounds it; a line with no tag yields no identifier.
C10_AnyContext ==
    parsed.id = 1
    => /\ (\E p \in 1..Len(line) : OccursAt(line, ExampleTag, p))
             => parsed.description_id = ExampleId
       /\ (\A p \in 1..Len(line) : ~TagStartsAt(line, p))
             => parsed.description_id = <<>>

\* C10 amended: ABC123 is returned when des:ABC123 is the leftmost tag of the
\* line and no alphanumeric character follows it; a line with no tag yields no
\* identifier.
C10_LeftmostWholeTag ==
    parsed.id = 1
    => /\ \A p \in 1..Len(line) :
             ( /\ OccursAt(line, ExampleTag, p)
               /\ \A q \in 1..(p - 1) : ~TagStartsAt(line, q)
               /\ (p + Len(ExampleTag) <= Len(line)
                      => line[p + Len(ExampleTag)] \notin Alnum) )
             => parsed.description_id = ExampleId
       /\ (\A p \in 1..Len(line) : ~TagStartsAt(line, p))
             => parsed.description_id = <<>>

\* the tag between other text, a tagless "des:" before it
C10_Witness ==
    /\ parsed.id = 1
    /\ line = <<"d","e","s",":",SP>> \o ExampleTag \o <<SP,"y">>
    /\ parsed.description_id = ExampleId

====
